---- MODULE Spec2Model ----
(***************************************************************************)
(* Prompt-template MCP server (src/src/index.ts, src/src/db/schema.ts).    *)
(*                                                                         *)
(* The durable store is the pair of tables prompt_templates and            *)
(* prompt_inputs.  Every POST /mcp request builds a fresh McpServer (the   *)
(* Catalog), starts loadAndRegisterPrompts() without awaiting it, and then *)
(* services one tool call.  Every `await db...` is one step of the model,  *)
(* so the un-awaited bootstrap interleaves with the tool handler.          *)
(*                                                                         *)
(* Strings that the code scans (template bodies, input names, values) are  *)
(* sequences of one-character strings.  Template names are opaque.         *)
(***************************************************************************)
EXTENDS Integers, Sequences, FiniteSets, TLC

VARIABLES
    templates,   \* table prompt_templates, rows in insertion order
    inputs,      \* table prompt_inputs, rows in insertion order
    nextId,      \* next primary key handed out for a template
    clock,       \* number of requests received so far (CURRENT_TIMESTAMP)
    failures,    \* number of store operations that have failed so far
    pc,          \* position of the tool handler of the current request
    op,          \* the tool call of the current request
    local,       \* savedTemplate / existingTemplate / updatedTemplate / template
    result,      \* what the tool handler returned
    bpc,         \* position of loadAndRegisterPrompts of the current request
    bTemplates,  \* `templates` as loaded by loadAndRegisterPrompts
    bIdx,        \* index of the template the bootstrap loop handles next
    prompts,     \* the prompts registered on the request's McpServer
    lastMut,     \* the last mutation that returned success (history)
    returned,    \* the last step was a tool handler returning (history)
    exBody,      \* body given to a stand-alone call of extractInputs or of the render loop
    exOut,       \* result of the stand-alone call of extractInputs
    exArgs,      \* entries given to a stand-alone run of the render loop
    exText,      \* its result
    rpc,         \* position of the handler of a PUT /api/templates/:id request
    rop,         \* the id and the JSON body of that request
    rresult,     \* the response of that request
    rhist        \* which MCP requests that request ran next to (history)

vars == <<templates, inputs, nextId, clock, failures, pc, op, local, result,
          bpc, bTemplates, bIdx, prompts, lastMut, returned, exBody, exOut,
          exArgs, exText, rpc, rop, rresult, rhist>>

storeVars == <<templates, inputs, nextId>>
bootVars == <<bpc, bTemplates, bIdx>>
exVars == <<exBody, exOut, exArgs, exText>>
restVars == <<rpc, rop, rresult, rhist>>

-----------------------------------------------------------------------------
(* Bounds of the model.                                                    *)

MaxRequests == 3
MaxTemplates == 2
MaxFailures == 1
MaxLen == 4

-----------------------------------------------------------------------------
(* Sequences of characters.                                                *)

Char == {"{", "}", "a", "b", "$", "&"}

RECURSIVE StringsOfLen(_)
StringsOfLen(n) ==
    IF n = 0 THEN {<<>>}
    ELSE {Append(s, c) : s \in StringsOfLen(n - 1), c \in Char}

StringsUpTo(n) == UNION {StringsOfLen(k) : k \in 0..n}

Undefined == "undefined"
Null == "null"

Min(S) == CHOOSE x \in S : \A y \in S : x <= y

Range(s) == {s[i] : i \in DOMAIN s}

\* whether p occurs in t at position i
OccursAt(t, p, i) ==
    /\ i >= 1
    /\ i + Len(p) - 1 <= Len(t)
    /\ \A k \in 1..Len(p) : t[i + k - 1] = p[k]

-----------------------------------------------------------------------------
(* extractInputs: the loop `while ((match = regex.exec(template)))` over   *)
(* /\{([^}]+)\}/g, adding match[1] to a Set (insertion order, no           *)
(* duplicates), then Array.from.                                           *)

\* positions of "}" after position i
ClosesAfter(t, i) == {j \in (i + 1)..Len(t) : t[j] = "}"}

\* Set.prototype.add on an insertion-ordered set
SetAddKeepsDuplicates(acc, n) == Append(acc, n)

SetAdd(acc, n) == IF n \in Range(acc) THEN acc ELSE Append(acc, n)

\* the regex at position i: "{", then one or more non-"}" (greedy), then "}".
\* The result is the position of the closing brace, or 0 when there is no match.
MatchEndAllowsEmpty(t, i) ==
    IF t[i] # "{" \/ ClosesAfter(t, i) = {} THEN 0 ELSE Min(ClosesAfter(t, i))

MatchEnd(t, i) ==
    IF t[i] # "{" \/ ClosesAfter(t, i) = {} THEN 0
    ELSE LET j == Min(ClosesAfter(t, i)) IN IF j > i + 1 THEN j ELSE 0

RECURSIVE ExecLoop(_, _, _)
ExecLoop(t, i, acc) ==
    IF i > Len(t) THEN acc
    ELSE LET j == MatchEnd(t, i) IN
         IF j = 0 THEN ExecLoop(t, i + 1, acc)
         ELSE ExecLoop(t, j + 1, SetAdd(acc, SubSeq(t, i + 1, j - 1)))

extractInputs(template) == ExecLoop(template, 1, <<>>)

-----------------------------------------------------------------------------
(* renderedTemplate.replace(new RegExp(`\\{${key}\\}`, 'g'), value) for    *)
(* keys and values over Char.  The key is spliced into the pattern         *)
(* unescaped: of the characters of Char only "$" is a pattern character    *)
(* (the end-of-input assertion; the pattern always goes on with "\}", so a *)
(* pattern holding "$" matches nowhere).  The value is a replacement       *)
(* pattern: of the two-character sequences over Char, "$$" yields "$" and  *)
(* "$&" yields the matched text.                                           *)

KeyMatchesLiterally(key) == "$" \notin Range(key)

Pattern(key) == <<"{">> \o key \o <<"}">>

RECURSIVE GetSubstitution(_, _, _)
GetSubstitution(value, i, matched) ==
    IF i > Len(value) THEN <<>>
    ELSE IF value[i] = "$" /\ i < Len(value) /\ value[i + 1] = "$"
         THEN <<"$">> \o GetSubstitution(value, i + 2, matched)
    ELSE IF value[i] = "$" /\ i < Len(value) /\ value[i + 1] = "&"
         THEN matched \o GetSubstitution(value, i + 2, matched)
    ELSE <<value[i]>> \o GetSubstitution(value, i + 1, matched)

RECURSIVE ReplaceFrom(_, _, _, _)
ReplaceFrom(t, i, p, value) ==
    IF i > Len(t) THEN <<>>
    ELSE IF OccursAt(t, p, i)
         THEN GetSubstitution(value, 1, p) \o ReplaceFrom(t, i + Len(p), p, value)
    ELSE <<t[i]>> \o ReplaceFrom(t, i + 1, p, value)

ReplaceAll(t, key, value) ==
    IF KeyMatchesLiterally(key) THEN ReplaceFrom(t, 1, Pattern(key), value) ELSE t

\* for (const [key, value] of Object.entries(args)) renderedTemplate = ...
\* `args` is the sequence of the object's entries in insertion order
RECURSIVE RenderFrom(_, _, _)
RenderFrom(t, args, k) ==
    IF k > Len(args) THEN t
    ELSE RenderFrom(ReplaceAll(t, args[k].key, args[k].value), args, k + 1)

renderTemplate(template, args) == RenderFrom(template, args, 1)

\* inputs[name] on the plain object `inputs`: an own entry, else a property
\* inherited from Object.prototype, else undefined.  The test is on
\* truthiness: "" and undefined are falsy, an inherited function is truthy.
valueOfName == <<"v", "a", "l", "u", "e", "O", "f">>
ObjectPrototypeKeys == {valueOfName}

HasOwn(args, name) == \E k \in DOMAIN args : args[k].key = name

OwnValue(args, name) == args[CHOOSE k \in DOMAIN args : args[k].key = name].value

Truthy(args, name) ==
    IF HasOwn(args, name) THEN OwnValue(args, name) # <<>>
    ELSE name \in ObjectPrototypeKeys

-----------------------------------------------------------------------------
(* The store: db.select / insert / update / delete on the two tables.      *)


\* .where(eq(schema.promptTemplates.id, id))
TemplatesWhereId(id) == SelectSeq(templates, LAMBDA r : r.id = id)

\* .where(eq(schema.promptTemplates.name, name))
TemplatesWhereName(name) == SelectSeq(templates, LAMBDA r : r.name = name)

\* .where(eq(schema.promptInputs.templateId, id))
InputsWhere(id) == SelectSeq(inputs, LAMBDA r : r.templateId = id)

InputRowsNone(id, inputNames) == <<>>

\* inputNames.map(inputName => ({templateId, name: inputName, required: true}))
InputRows(id, inputNames) ==
    [k \in 1..Len(inputNames) |->
        [templateId |-> id, name |-> inputNames[k], required |-> TRUE]]

DeleteInputsKeepsRows(rows, id) == rows

\* db.delete(schema.promptInputs).where(eq(schema.promptInputs.templateId, id))
DeleteInputs(rows, id) == SelectSeq(rows, LAMBDA r : r.templateId # id)

\* the row written by db.insert(schema.promptTemplates).values({name, description, template});
\* id, createdAt and updatedAt are the column defaults of schema.ts
NewTemplate(o) ==
    [id |-> nextId,
     name |-> o.name,
     description |-> IF o.description = Undefined THEN Null ELSE o.description,
     template |-> o.template,
     createdAt |-> clock,
     updatedAt |-> clock]

UndefinedBody == <<Undefined>>

SetUpdateDataOverwrites(r, o) ==
    [r EXCEPT !.name = o.name, !.description = o.description, !.template = o.template]

\* the row after db.update(...).set(updateData): the fields that were given
SetUpdateData(r, o) ==
    [r EXCEPT !.name = IF o.name # Undefined THEN o.name ELSE @,
              !.description = IF o.description # Undefined THEN o.description ELSE @,
              !.template = IF o.template # UndefinedBody THEN o.template ELSE @]

UpdateWhereId(rows, o) ==
    [k \in DOMAIN rows |-> IF rows[k].id = o.id THEN SetUpdateData(rows[k], o) ELSE rows[k]]

-----------------------------------------------------------------------------
(* The Catalog: the prompts of the request's McpServer.  The registry is   *)
(* the SDK's; it is modelled by its contract: registering a name replaces  *)
(* the entry of that name, removing a name unregisters it.                 *)

Names == {"n1", "n2"}

NoPrompt == [registered |-> FALSE]

\* argumentSchema[input.name] = z.string()..., made optional if !input.required;
\* an object: one entry per name, a later row of the same name overwrites
ArgumentSchema(rows) ==
    {[name |-> rows[k].name, required |-> rows[k].required] :
        k \in {k \in DOMAIN rows : \A m \in DOMAIN rows : m > k => rows[m].name # rows[k].name}}

\* what server.prompt(template.name, argumentSchema, async (args) => ...) registers:
\* the schema and the closure over the template row
PromptEntry(t, rows) ==
    [registered |-> TRUE,
     argumentSchema |-> ArgumentSchema(rows),
     template |-> t.template,
     description |-> t.description]

RegisterPrompt(reg, name, entry) == [reg EXCEPT ![name] = entry]

RemovePrompt(reg, name) == [reg EXCEPT ![name] = NoPrompt]

Registered == {n \in Names : prompts[n].registered}

-----------------------------------------------------------------------------
(* The tool calls a request can carry.                                     *)

bodyA == <<"{", "a", "}">>
bodyBA == <<"{", "b", "}", "{", "a", "}">>
bodyValueOf == <<"{">> \o valueOfName \o <<"}">>
bodyPlain == <<"a">>
Bodies == {bodyA, bodyBA, bodyValueOf}

Ids == 1..MaxTemplates

Arg(k, v) == [key |-> k, value |-> v]

\* the `inputs` objects of get_prompt_by_name calls
InputObjects ==
    { <<>>,
      <<Arg(<<"a">>, <<"b">>)>>,
      <<Arg(<<"a">>, <<>>)>>,
      <<Arg(<<"a">>, <<"$", "&">>)>>,
      <<Arg(<<"a">>, <<"{", "b", "}">>), Arg(<<"b">>, <<"a">>)>> }

Call(kind, id, name, description, template, args) ==
    [kind |-> kind, id |-> id, name |-> name, description |-> description,
     template |-> template, inputs |-> args]

\* save_prompt_template: name and template are z.string().min(1)
SaveCalls ==
    {Call("save", 0, "n1", Undefined, b, <<>>) : b \in Bodies}
        \cup {Call("save", 0, "n2", Undefined, bodyA, <<>>),
              Call("save", 0, "n1", "d1", bodyA, <<>>)}

\* update_prompt_template: every field but id is optional.  A call that gives
\* none of them never reaches the store (the query builder refuses an empty
\* SET) and is left out.  The calls: a new name, a new body, both, a new
\* description.
UpdateCalls ==
    {Call("update", i, n, Undefined, UndefinedBody, <<>>) : i \in Ids, n \in Names}
        \cup {Call("update", i, Undefined, Undefined, b, <<>>) :
                  i \in Ids, b \in {bodyA, bodyBA, bodyPlain}}
        \cup {Call("update", i, "n2", Undefined, bodyBA, <<>>) : i \in Ids}
        \cup {Call("update", i, Undefined, "d2", UndefinedBody, <<>>) : i \in Ids}

DeleteCalls == {Call("delete", i, Undefined, Undefined, UndefinedBody, <<>>) : i \in Ids}

ListCalls == {Call("list", 0, Undefined, Undefined, UndefinedBody, <<>>)}

GetCalls ==
    {Call("get", 0, "n1", Undefined, UndefinedBody, a) : a \in InputObjects}
        \cup {Call("get", 0, "n2", Undefined, UndefinedBody, <<>>),
              Call("get", 0, "n2", Undefined, UndefinedBody, <<Arg(<<"a">>, <<"b">>)>>)}

NoCall == Call("none", 0, Undefined, Undefined, UndefinedBody, <<>>)

FirstStep(kind) ==
    CASE kind = "save" -> "save_insert"
      [] kind = "update" -> "update_select"
      [] kind = "delete" -> "delete_select"
      [] kind = "list" -> "list_select"
      [] kind = "get" -> "get_select"

\* what a tool handler returns
Result(kind, isError, payload) == [kind |-> kind, isError |-> isError, payload |-> payload]

NoResult == Result("none", FALSE, <<>>)

\* what a failing store operation throws
StoreError(message) == [isErrorObject |-> TRUE, message |-> message]

StoreErrors == {StoreError("D1_ERROR")}

\* error instanceof Error ? error.message : "Unknown error"
ErrorMessage(e) == IF e.isErrorObject THEN e.message ELSE "Unknown error"

FailedWithoutFlag(kind, e) == Result("failed", FALSE, <<kind, ErrorMessage(e)>>)

\* the catch block of a handler: `Error <kind> ...: ${message}`, isError: true
Failed(kind, e) == Result("failed", TRUE, <<kind, ErrorMessage(e)>>)

NotFoundUnnamed(what) == Result("notfound", TRUE, <<>>)

\* `Template with ID "${id}" not found` / `Template "${name}" not found`
NotFound(what) == Result("notfound", TRUE, <<what>>)

NoMut == [kind |-> "none", id |-> 0, name |-> Undefined, oldName |-> Undefined,
          template |-> UndefinedBody]

Mut(kind, id, name, oldName, template) ==
    [kind |-> kind, id |-> id, name |-> name, oldName |-> oldName, template |-> template]

-----------------------------------------------------------------------------
(* Initial state: an empty database, no request yet.                       *)

NoExtract == [done |-> FALSE, names |-> <<>>]

NoRender == [done |-> FALSE, text |-> <<>>]

\* PUT /api/templates/:id with the JSON body {name, description, template}
Put(id, name, description, template) ==
    [id |-> id, name |-> name, description |-> description, template |-> template]

NoPut == Put(0, Undefined, Undefined, UndefinedBody)

\* c.json(body, status)
Response(status, body) == [status |-> status, body |-> body]

NoResponse == Response(0, <<>>)

\* the request count when the PUT was received, whether a tool handler was
\* running then, and the request count when the PUT was answered
Hist(startClock, startBusy, endClock) ==
    [startClock |-> startClock, startBusy |-> startBusy, endClock |-> endClock]

NoHist == Hist(0, FALSE, 0)

\* no request yet
RequestInit ==
    /\ clock = 0
    /\ failures = 0
    /\ pc = "idle"
    /\ op = NoCall
    /\ local = <<>>
    /\ result = NoResult
    /\ bpc = "idle"
    /\ bTemplates = <<>>
    /\ bIdx = 1
    /\ prompts = [n \in Names |-> NoPrompt]
    /\ lastMut = NoMut
    /\ returned = FALSE
    /\ rpc = "idle"
    /\ rop = NoPut
    /\ rresult = NoResponse
    /\ rhist = NoHist

ServerInit ==
    /\ templates = <<>>
    /\ inputs = <<>>
    /\ nextId = 1
    /\ RequestInit

Init ==
    /\ ServerInit
    /\ exBody = <<>>
    /\ exOut = NoExtract
    /\ exArgs = <<>>
    /\ exText = NoRender

-----------------------------------------------------------------------------
(* app.post("/mcp"): createMcpServer(db) makes a fresh McpServer and calls *)
(* loadAndRegisterPrompts() without awaiting it; the tool call is then     *)
(* dispatched.  Requests are received one after the other: the handler of  *)
(* the previous one has returned and its bootstrap has run out.            *)

Receive(c) ==
    /\ pc \in {"idle", "done"}
    /\ bpc \in {"idle", "done"}
    /\ clock < MaxRequests
    /\ c.kind = "save" => nextId <= MaxTemplates
    /\ clock' = clock + 1
    /\ op' = c
    /\ pc' = FirstStep(c.kind)
    /\ local' = <<>>
    /\ result' = NoResult
    /\ prompts' = [n \in Names |-> NoPrompt]
    /\ bpc' = "load"
    /\ bTemplates' = <<>>
    /\ bIdx' = 1
    /\ lastMut' = IF c.kind \in {"save", "update", "delete"} THEN NoMut ELSE lastMut
    /\ returned' = FALSE
    /\ UNCHANGED <<storeVars, failures, exVars, restVars>>

-----------------------------------------------------------------------------
(* loadAndRegisterPrompts.  One try/catch around the whole function: a     *)
(* failing select ends it, whatever remains of the loop (BootFails, a step *)
(* of SpecFaulty).                                                         *)

\* the awaited select of the bootstrap throws: catch (error) { console.error(...) }
BootFails ==
    /\ bpc \in {"load", "loop"}
    /\ failures < MaxFailures
    /\ failures' = failures + 1
    /\ bpc' = "done"
    /\ returned' = FALSE
    /\ UNCHANGED <<storeVars, clock, pc, op, local, result, bTemplates, bIdx, prompts,
                   lastMut, exVars, restVars>>

\* const templates = await db.select().from(schema.promptTemplates)
BootLoad ==
    /\ bpc = "load"
    /\ \/ /\ bTemplates' = templates
          /\ bpc' = IF templates = <<>> THEN "done" ELSE "loop"
          /\ UNCHANGED <<bIdx, prompts, failures>>
    /\ returned' = FALSE
    /\ UNCHANGED <<storeVars, clock, pc, op, local, result, lastMut, exVars, restVars>>

\* one turn of `for (const template of templates)`: select the inputs,
\* build the schema, server.prompt(...)
BootRegister ==
    /\ bpc = "loop"
    /\ \/ LET t == bTemplates[bIdx] IN
          /\ prompts' = RegisterPrompt(prompts, t.name, PromptEntry(t, InputsWhere(t.id)))
          /\ bIdx' = bIdx + 1
          /\ bpc' = IF bIdx = Len(bTemplates) THEN "done" ELSE "loop"
          /\ UNCHANGED <<bTemplates, failures>>
    /\ returned' = FALSE
    /\ UNCHANGED <<storeVars, clock, pc, op, local, result, lastMut, exVars, restVars>>

-----------------------------------------------------------------------------
(* The tool handlers.  Each is one try/catch: a store operation that fails *)
(* throws, and the catch block returns the failure result (HandlerFails,   *)
(* a step of SpecFaulty; under Spec the store does not fail).              *)

\* the awaited store operation of the handler throws: the operation has no
\* effect and the catch block returns the failure result
HandlerFails ==
    /\ pc \notin {"idle", "done"}
    /\ failures < MaxFailures
    /\ failures' = failures + 1
    /\ \E e \in StoreErrors : result' = Failed(op.kind, e)
    /\ pc' = "done"
    /\ returned' = TRUE
    /\ UNCHANGED <<storeVars, clock, op, local, bootVars, prompts, lastMut, exVars, restVars>>

InputNamesOf(rows) == [k \in DOMAIN rows |-> rows[k].name]

(* save_prompt_template *)

\* const [savedTemplate] = await db.insert(schema.promptTemplates)...returning()
SaveInsertTemplate ==
    /\ pc = "save_insert"
    /\ \/ /\ templates' = Append(templates, NewTemplate(op))
          /\ nextId' = nextId + 1
          /\ local' = <<NewTemplate(op)>>
          /\ pc' = IF Len(extractInputs(op.template)) > 0
                   THEN "save_inputs" ELSE "save_register"
          /\ returned' = FALSE
          /\ UNCHANGED <<inputs, failures, result, prompts, lastMut>>
    /\ UNCHANGED <<clock, op, bootVars, exVars, restVars>>

\* await db.insert(schema.promptInputs).values(...)
SaveInsertInputs ==
    /\ pc = "save_inputs"
    /\ \/ /\ inputs' = inputs \o InputRows(local[1].id, extractInputs(op.template))
          /\ pc' = "save_register"
          /\ returned' = FALSE
          /\ UNCHANGED <<templates, nextId, failures, local, result, prompts, lastMut>>
    /\ UNCHANGED <<clock, op, bootVars, exVars, restVars>>

\* const inputs = await db.select()...; server.prompt(savedTemplate.name, ...); return
SaveRegister ==
    /\ pc = "save_register"
    /\ \/ LET t == local[1] IN
          /\ prompts' = RegisterPrompt(prompts, t.name, PromptEntry(t, InputsWhere(t.id)))
          /\ result' = Result("saved", FALSE, <<op.name, extractInputs(op.template)>>)
          /\ lastMut' = Mut("save", t.id, t.name, Undefined, t.template)
          /\ pc' = "done"
          /\ returned' = TRUE
          /\ UNCHANGED <<storeVars, failures, local>>
    /\ UNCHANGED <<clock, op, bootVars, exVars, restVars>>

(* update_prompt_template *)

\* const [existingTemplate] = await db.select()...where(id); if (!existingTemplate) return
UpdateSelect ==
    /\ pc = "update_select"
    /\ \/ /\ TemplatesWhereId(op.id) = <<>>
          /\ result' = NotFound(op.id)
          /\ pc' = "done"
          /\ returned' = TRUE
          /\ UNCHANGED <<storeVars, failures, local, prompts, lastMut>>
       \/ /\ TemplatesWhereId(op.id) # <<>>
          /\ local' = <<TemplatesWhereId(op.id)[1]>>
          /\ pc' = "update_row"
          /\ returned' = FALSE
          /\ UNCHANGED <<storeVars, failures, result, prompts, lastMut>>
    /\ UNCHANGED <<clock, op, bootVars, exVars, restVars>>

UpdateRowSkipsInputs ==
    /\ pc = "update_row"
    /\ templates' = UpdateWhereId(templates, op)
    /\ local' = <<local[1], SetUpdateData(TemplatesWhereId(op.id)[1], op)>>
    /\ pc' = "update_register"
    /\ returned' = FALSE
    /\ UNCHANGED <<inputs, nextId, failures, result, prompts, lastMut>>
    /\ UNCHANGED <<clock, op, bootVars, exVars, restVars>>

\* const [updatedTemplate] = await db.update(...).set(updateData).where(id).returning()
\* local keeps existingTemplate first and updatedTemplate second
UpdateRow ==
    /\ pc = "update_row"
    /\ \/ /\ templates' = UpdateWhereId(templates, op)
          /\ local' = <<local[1], SetUpdateData(TemplatesWhereId(op.id)[1], op)>>
          /\ pc' = IF op.template # UndefinedBody THEN "update_delete_inputs"
                   ELSE "update_register"
          /\ returned' = FALSE
          /\ UNCHANGED <<inputs, nextId, failures, result, prompts, lastMut>>
    /\ UNCHANGED <<clock, op, bootVars, exVars, restVars>>

\* await db.delete(schema.promptInputs).where(templateId = id)
UpdateDeleteInputs ==
    /\ pc = "update_delete_inputs"
    /\ \/ /\ inputs' = DeleteInputs(inputs, op.id)
          /\ pc' = IF Len(extractInputs(op.template)) > 0
                   THEN "update_insert_inputs" ELSE "update_register"
          /\ returned' = FALSE
          /\ UNCHANGED <<templates, nextId, failures, local, result, prompts, lastMut>>
    /\ UNCHANGED <<clock, op, bootVars, exVars, restVars>>

\* await db.insert(schema.promptInputs).values(...)
UpdateInsertInputs ==
    /\ pc = "update_insert_inputs"
    /\ \/ /\ inputs' = inputs \o InputRows(op.id, extractInputs(op.template))
          /\ pc' = "update_register"
          /\ returned' = FALSE
          /\ UNCHANGED <<templates, nextId, failures, local, result, prompts, lastMut>>
    /\ UNCHANGED <<clock, op, bootVars, exVars, restVars>>

\* const inputs = await db.select()...; server.prompt(updatedTemplate.name, ...); return
UpdateRegister ==
    /\ pc = "update_register"
    /\ \/ LET t == local[2] IN
          /\ prompts' = RegisterPrompt(prompts, t.name, PromptEntry(t, InputsWhere(op.id)))
          /\ result' = Result("updated", FALSE, <<t.name>>)
          /\ lastMut' = Mut("update", t.id, t.name, local[1].name, op.template)
          /\ pc' = "done"
          /\ returned' = TRUE
          /\ UNCHANGED <<storeVars, failures, local>>
    /\ UNCHANGED <<clock, op, bootVars, exVars, restVars>>

(* delete_prompt_template *)

\* const [existingTemplate] = await db.select()...; if (!existingTemplate) return;
\* server.removePrompt(existingTemplate.name) runs before the delete is awaited
DeleteSelect ==
    /\ pc = "delete_select"
    /\ \/ /\ TemplatesWhereId(op.id) = <<>>
          /\ result' = NotFound(op.id)
          /\ pc' = "done"
          /\ returned' = TRUE
          /\ UNCHANGED <<storeVars, failures, local, prompts, lastMut>>
       \/ /\ TemplatesWhereId(op.id) # <<>>
          /\ local' = <<TemplatesWhereId(op.id)[1]>>
          /\ prompts' = RemovePrompt(prompts, TemplatesWhereId(op.id)[1].name)
          /\ pc' = "delete_row"
          /\ returned' = FALSE
          /\ UNCHANGED <<storeVars, failures, result, lastMut>>
    /\ UNCHANGED <<clock, op, bootVars, exVars, restVars>>

\* await db.delete(schema.promptTemplates).where(id); promptInputs.templateId
\* references promptTemplates.id with onDelete: "cascade"
DeleteRow ==
    /\ pc = "delete_row"
    /\ \/ /\ templates' = SelectSeq(templates, LAMBDA r : r.id # op.id)
          /\ inputs' = DeleteInputs(inputs, op.id)
          /\ result' = Result("deleted", FALSE, <<local[1].name>>)
          /\ lastMut' = Mut("delete", op.id, local[1].name, Undefined, UndefinedBody)
          /\ pc' = "done"
          /\ returned' = TRUE
          /\ UNCHANGED <<nextId, failures, local, prompts>>
    /\ UNCHANGED <<clock, op, bootVars, exVars, restVars>>

(* list_prompt_templates *)

ListSelect ==
    /\ pc = "list_select"
    /\ \/ /\ result' = Result("list", FALSE, templates)
          /\ pc' = "done"
          /\ returned' = TRUE
          /\ UNCHANGED <<storeVars, failures, local, prompts, lastMut>>
    /\ UNCHANGED <<clock, op, bootVars, exVars, restVars>>

(* get_prompt_by_name *)

\* const [template] = await db.select()...where(name): the first row of that name
GetSelect ==
    /\ pc = "get_select"
    /\ \/ /\ TemplatesWhereName(op.name) = <<>>
          /\ result' = NotFound(op.name)
          /\ pc' = "done"
          /\ returned' = TRUE
          /\ UNCHANGED <<storeVars, failures, local, prompts, lastMut>>
       \/ /\ TemplatesWhereName(op.name) # <<>>
          /\ local' = <<TemplatesWhereName(op.name)[1]>>
          /\ pc' = "get_render"
          /\ returned' = FALSE
          /\ UNCHANGED <<storeVars, failures, result, prompts, lastMut>>
    /\ UNCHANGED <<clock, op, bootVars, exVars, restVars>>

\* templateInputs.filter(input => input.required && !inputs[input.name]).map(name)
MissingInputs(templateInputs, args) ==
    InputNamesOf(SelectSeq(templateInputs, LAMBDA r : r.required /\ ~Truthy(args, r.name)))

\* what get_prompt_by_name returns for template row t with its input rows
RenderResult(t, templateInputs, args) ==
    IF Len(MissingInputs(templateInputs, args)) > 0
    THEN Result("missing", FALSE,
                <<MissingInputs(templateInputs, args), t.template,
                  InputNamesOf(templateInputs)>>)
    ELSE Result("text", FALSE, renderTemplate(t.template, args))

\* const templateInputs = await db.select()...; render; check; return
GetRender ==
    /\ pc = "get_render"
    /\ \/ /\ result' = RenderResult(local[1], InputsWhere(local[1].id), op.inputs)
          /\ pc' = "done"
          /\ returned' = TRUE
          /\ UNCHANGED <<storeVars, failures, local, prompts, lastMut>>
    /\ UNCHANGED <<clock, op, bootVars, exVars, restVars>>

-----------------------------------------------------------------------------

Calls == SaveCalls \cup UpdateCalls \cup DeleteCalls \cup ListCalls \cup GetCalls

Next ==
    \/ \E c \in Calls : Receive(c)
    \/ BootLoad
    \/ BootRegister
    \/ SaveInsertTemplate
    \/ SaveInsertInputs
    \/ SaveRegister
    \/ UpdateSelect
    \/ UpdateRow
    \/ UpdateDeleteInputs
    \/ UpdateInsertInputs
    \/ UpdateRegister
    \/ DeleteSelect
    \/ DeleteRow
    \/ ListSelect
    \/ GetSelect
    \/ GetRender

Spec == Init /\ [][Next]_vars

\* The same server on a store whose operations may fail, at most MaxFailures
\* times.  The requests carry calls of each of the five tools: saves under
\* either name, updates of the body or of the name, deletes, the list and one
\* render-by-name.
FaultyCalls ==
    {Call("save", 0, "n1", Undefined, bodyA, <<>>),
     Call("save", 0, "n2", Undefined, bodyBA, <<>>)}
        \cup {Call("update", i, Undefined, Undefined, b, <<>>) :
                  i \in Ids, b \in {bodyA, bodyBA}}
        \cup {Call("update", i, "n2", Undefined, UndefinedBody, <<>>) : i \in Ids}
        \cup DeleteCalls
        \cup ListCalls
        \cup {Call("get", 0, "n1", Undefined, UndefinedBody, <<Arg(<<"a">>, <<"b">>)>>)}

NextFaulty ==
    \/ \E c \in FaultyCalls : Receive(c)
    \/ BootLoad
    \/ BootRegister
    \/ BootFails
    \/ SaveInsertTemplate
    \/ SaveInsertInputs
    \/ SaveRegister
    \/ UpdateSelect
    \/ UpdateRow
    \/ UpdateDeleteInputs
    \/ UpdateInsertInputs
    \/ UpdateRegister
    \/ DeleteSelect
    \/ DeleteRow
    \/ ListSelect
    \/ GetSelect
    \/ GetRender
    \/ HandlerFails

SpecFaulty == Init /\ [][NextFaulty]_vars

-----------------------------------------------------------------------------
(* app.put("/api/templates/:id"): the REST update.  It runs the same store *)
(* statements as update_prompt_template, without a Catalog, and it is      *)
(* served while a POST /mcp request may be in progress: each awaited       *)
(* statement is one step.  rresult.body holds updatedTemplate from the     *)
(* update statement on.                                                    *)

PutCalls ==
    {Put(i, Undefined, Undefined, b) : i \in Ids, b \in {bodyA, bodyBA}}
        \cup {Put(1, "n2", Undefined, UndefinedBody)}

ReceivePut(c) ==
    /\ rpc = "idle"
    /\ rop' = c
    /\ rpc' = "put_select"
    /\ rhist' = Hist(clock, pc \notin {"idle", "done"}, clock)
    /\ returned' = FALSE
    /\ UNCHANGED <<storeVars, clock, failures, pc, op, local, result, bootVars, prompts,
                   lastMut, rresult, exVars>>

\* return c.json(body, status)
PutReturns(status, body) ==
    /\ rresult' = Response(status, body)
    /\ rpc' = "done"
    /\ rhist' = [rhist EXCEPT !.endClock = clock]

\* const [existingTemplate] = await db.select()...; if (!existingTemplate) return 404
PutSelect ==
    /\ rpc = "put_select"
    /\ \/ /\ TemplatesWhereId(rop.id) = <<>>
          /\ PutReturns(404, <<>>)
       \/ /\ TemplatesWhereId(rop.id) # <<>>
          /\ rpc' = "put_row"
          /\ UNCHANGED <<rresult, rhist>>
    /\ returned' = FALSE
    /\ UNCHANGED <<storeVars, clock, failures, pc, op, local, result, bootVars, prompts,
                   lastMut, rop, exVars>>

\* const [updatedTemplate] = await db.update(...).set(updateData).where(id).returning()
PutRow ==
    /\ rpc = "put_row"
    /\ templates' = UpdateWhereId(templates, rop)
    /\ LET updated == [k \in DOMAIN TemplatesWhereId(rop.id) |->
                          SetUpdateData(TemplatesWhereId(rop.id)[k], rop)]
       IN IF rop.template # UndefinedBody
          THEN /\ rresult' = Response(0, updated)
               /\ rpc' = "put_delete_inputs"
               /\ UNCHANGED rhist
          ELSE PutReturns(200, updated)
    /\ returned' = FALSE
    /\ UNCHANGED <<inputs, nextId, clock, failures, pc, op, local, result, bootVars,
                   prompts, lastMut, rop, exVars>>

\* await db.delete(schema.promptInputs).where(templateId = id)
PutDeleteInputs ==
    /\ rpc = "put_delete_inputs"
    /\ inputs' = DeleteInputs(inputs, rop.id)
    /\ IF Len(extractInputs(rop.template)) > 0
       THEN /\ rpc' = "put_insert_inputs"
            /\ UNCHANGED <<rresult, rhist>>
       ELSE PutReturns(200, rresult.body)
    /\ returned' = FALSE
    /\ UNCHANGED <<templates, nextId, clock, failures, pc, op, local, result, bootVars,
                   prompts, lastMut, rop, exVars>>

\* await db.insert(schema.promptInputs).values(...); templateId references
\* promptTemplates.id, so the insert throws when the template row is gone
PutInsertInputs ==
    /\ rpc = "put_insert_inputs"
    /\ IF TemplatesWhereId(rop.id) = <<>>
       THEN /\ PutReturns(500, <<>>)
            /\ UNCHANGED inputs
       ELSE /\ inputs' = inputs \o InputRows(rop.id, extractInputs(rop.template))
            /\ PutReturns(200, rresult.body)
    /\ returned' = FALSE
    /\ UNCHANGED <<templates, nextId, clock, failures, pc, op, local, result, bootVars,
                   prompts, lastMut, rop, exVars>>

\* the tool calls of the POST /mcp requests that run next to the PUT
ConcurrentCalls ==
    {Call("update", i, Undefined, Undefined, b, <<>>) : i \in Ids, b \in {bodyA, bodyBA}}

\* the store after save_prompt_template(name "n1", template "{a}") on an
\* empty database, at time 0
InitConcurrent ==
    /\ templates = <<[id |-> 1, name |-> "n1", description |-> Null, template |-> bodyA,
                      createdAt |-> 0, updatedAt |-> 0]>>
    /\ inputs = InputRows(1, extractInputs(bodyA))
    /\ nextId = 2
    /\ RequestInit
    /\ exBody = <<>>
    /\ exOut = NoExtract
    /\ exArgs = <<>>
    /\ exText = NoRender

NextConcurrent ==
    \/ \E c \in ConcurrentCalls : Receive(c)
    \/ BootLoad
    \/ BootRegister
    \/ UpdateSelect
    \/ UpdateRow
    \/ UpdateDeleteInputs
    \/ UpdateInsertInputs
    \/ UpdateRegister
    \/ \E c \in PutCalls : ReceivePut(c)
    \/ PutSelect
    \/ PutRow
    \/ PutDeleteInputs
    \/ PutInsertInputs

SpecConcurrent == InitConcurrent /\ [][NextConcurrent]_vars

-----------------------------------------------------------------------------
(* extractInputs on its own: every body of at most MaxLen characters over  *)
(* Char, and the bodies the documentation gives as examples.               *)

exampleRepeated == <<"{", "a", "}", "-", "{", "b", "}", "-", "{", "a", "}">>
exampleUnmatched == <<"{", "a", "}", " ", "}", " ", "{", "b">>
exampleReadme == <<"H", "i", " ", "{", "f", "}", " ", "{", "l", "}", ".">>

ExtractBodies == StringsUpTo(MaxLen) \cup {exampleRepeated, exampleUnmatched, exampleReadme}

InitExtract ==
    /\ ServerInit
    /\ exBody \in ExtractBodies
    /\ exOut = NoExtract
    /\ exArgs = <<>>
    /\ exText = NoRender

CallExtract ==
    /\ ~exOut.done
    /\ exOut' = [done |-> TRUE, names |-> extractInputs(exBody)]
    /\ UNCHANGED <<templates, inputs, nextId, clock, failures, pc, op, local, result,
                   bpc, bTemplates, bIdx, prompts, lastMut, returned, exBody,
                   exArgs, exText, restVars>>

NextExtract == CallExtract

SpecExtract == InitExtract /\ [][NextExtract]_vars

-----------------------------------------------------------------------------
(* The render loop on its own (get_prompt_by_name 443-446, the same loop   *)
(* as in the three registered prompt callbacks): every body of at most     *)
(* MaxLen characters over Char, and entry lists with the keys a and b in   *)
(* either order.                                                           *)

RenderValues == {<<>>, <<"b">>, <<"{", "a", "}">>, <<"{", "b", "}">>, <<"$", "&">>}

RenderKeys == {<<"a">>, <<"b">>}

\* Object.entries of an object with at most one entry per key
RenderArgs ==
    {<<>>}
        \cup {<<Arg(k, v)>> : k \in RenderKeys, v \in RenderValues}
        \cup {<<Arg(k[1], v1), Arg(k[2], v2)>> :
                  k \in {q \in RenderKeys \X RenderKeys : q[1] # q[2]},
                  v1 \in RenderValues, v2 \in RenderValues}

RenderBodies == StringsUpTo(MaxLen) \cup {bodyBA}

InitRender ==
    /\ ServerInit
    /\ exBody \in RenderBodies
    /\ exOut = NoExtract
    /\ exArgs \in RenderArgs
    /\ exText = NoRender

CallRender ==
    /\ ~exText.done
    /\ exText' = [done |-> TRUE, text |-> renderTemplate(exBody, exArgs)]
    /\ UNCHANGED <<templates, inputs, nextId, clock, failures, pc, op, local, result,
                   bpc, bTemplates, bIdx, prompts, lastMut, returned, exBody, exOut,
                   exArgs, restVars>>

NextRender == CallRender

SpecRender == InitRender /\ [][NextRender]_vars

-----------------------------------------------------------------------------
(* Placeholders of a body, by position: a closing brace ends a placeholder *)
(* when an opening brace lies between the previous closing brace and it,   *)
(* with at least one character in between; the name starts after the       *)
(* leftmost such opening brace.                                            *)

PrevClose(t, j) ==
    LET S == {k \in 1..(j - 1) : t[k] = "}"} IN
    IF S = {} THEN 0 ELSE CHOOSE k \in S : \A m \in S : m <= k

OpensBefore(t, j) == {i \in (PrevClose(t, j) + 1)..(j - 1) : t[i] = "{"}

PlaceholderEnds(t) ==
    {j \in 1..Len(t) :
        /\ t[j] = "}"
        /\ OpensBefore(t, j) # {}
        /\ Min(OpensBefore(t, j)) < j - 1}

NameEndingAt(t, j) == SubSeq(t, Min(OpensBefore(t, j)) + 1, j - 1)

PlaceholderNames(t) == {NameEndingAt(t, j) : j \in PlaceholderEnds(t)}

FirstEnd(t, n) == Min({j \in PlaceholderEnds(t) : NameEndingAt(t, j) = n})

\* C7: for every body, extractInputs returns the placeholder names of the body,
\* each exactly once, in the order of their first occurrence; the documented
\* example "{a}-{b}-{a}" gives [a, b].
C7_ExtractDistinctInOrder ==
    exOut.done =>
        LET r == exOut.names IN
        /\ \A p, q \in DOMAIN r : p # q => r[p] # r[q]
        /\ Range(r) = PlaceholderNames(exBody)
        /\ \A p, q \in DOMAIN r : p < q => FirstEnd(exBody, r[p]) < FirstEnd(exBody, r[q])
        /\ exBody = exampleRepeated => r = << <<"a">>, <<"b">> >>

\* C7 witness: the documented body with a repeated placeholder has been extracted
C7_Witness ==
    /\ exOut.done
    /\ exBody = exampleRepeated
    /\ exOut.names = << <<"a">>, <<"b">> >>

\* C8 as stated: no extracted name is empty or contains a brace character
\* (opening or closing); a body without a closing brace, or without an
\* opening brace, yields no name.
C8_NoBraceInName ==
    exOut.done =>
        /\ \A k \in DOMAIN exOut.names :
              /\ exOut.names[k] # <<>>
              /\ "{" \notin Range(exOut.names[k])
              /\ "}" \notin Range(exOut.names[k])
        /\ ("}" \notin Range(exBody) \/ "{" \notin Range(exBody)) => exOut.names = <<>>

\* C8 amended: every extracted name is the non-empty text between an opening
\* brace and the first closing brace after it, so it holds no closing brace
\* (it may hold an opening brace); a body without a closing brace, or without
\* an opening brace, yields no name; "{a} } {b" gives [a].
C8_NoClosingBraceInName ==
    exOut.done =>
        /\ \A k \in DOMAIN exOut.names :
              /\ exOut.names[k] # <<>>
              /\ "}" \notin Range(exOut.names[k])
              /\ \E i \in 1..Len(exBody) :
                    /\ exBody[i] = "{"
                    /\ OccursAt(exBody, exOut.names[k] \o <<"}">>, i + 1)
        /\ ("}" \notin Range(exBody) \/ "{" \notin Range(exBody)) => exOut.names = <<>>
        /\ exBody = exampleUnmatched => exOut.names = << <<"a">> >>

\* C8 witness: a stray closing brace and an unclosed opening brace were skipped
C8_Witness ==
    /\ exOut.done
    /\ exBody = exampleUnmatched
    /\ exOut.names = << <<"a">> >>

-----------------------------------------------------------------------------
(* Claims about the store and the Catalog, under Spec.                     *)

TemplateRows == Range(templates)

StoredNames == {t.name : t \in TemplateRows}

\* the input rows of template t are exactly the names extracted from its body
InputsMatchBody(t) ==
    LET rows == InputsWhere(t.id) IN
    /\ Range(InputNamesOf(rows)) = Range(extractInputs(t.template))
    /\ Len(rows) = Len(extractInputs(t.template))
    /\ \A k \in DOMAIN rows : rows[k].required

\* C1: when no store operation has failed and no request is being handled,
\* every persisted template's input rows are exactly the distinct placeholder
\* names extracted from its current body, each with required = true.
C1_InputsMatchBody ==
    (failures = 0 /\ pc \in {"idle", "done"}) =>
        \A t \in TemplateRows : InputsMatchBody(t)

\* C1 witness: an update has replaced a body by one with other placeholders
C1_Witness ==
    /\ failures = 0
    /\ pc = "done"
    /\ result.kind = "updated"
    /\ local[1].template = bodyBA
    /\ op.template = bodyA
    /\ InputNamesOf(InputsWhere(op.id)) = << <<"a">> >>

\* C2: at the moment a save, update or delete returns success (no store
\* operation having failed), the names registered in the request's Catalog
\* are the names of the persisted templates.
C2_CatalogMatchesStore ==
    (failures = 0 /\ returned /\ result.kind \in {"saved", "updated", "deleted"}) =>
        Registered = StoredNames

\* the placeholder that starts at position i, as the set of its end positions
PlaceholderEndFrom(t, i) ==
    {j \in PlaceholderEnds(t) : Min(OpensBefore(t, j)) = i}

\* the body with every placeholder that has a value replaced by that value,
\* in one pass over the body
RECURSIVE SubstitutedFrom(_, _, _)
SubstitutedFrom(t, i, args) ==
    IF i > Len(t) THEN <<>>
    ELSE IF PlaceholderEndFrom(t, i) = {} THEN <<t[i]>> \o SubstitutedFrom(t, i + 1, args)
    ELSE LET j == Min(PlaceholderEndFrom(t, i))
             n == SubSeq(t, i + 1, j - 1)
         IN (IF HasOwn(args, n) THEN OwnValue(args, n) ELSE SubSeq(t, i, j))
                \o SubstitutedFrom(t, j + 1, args)

Substituted(t, args) == SubstitutedFrom(t, 1, args)

\* args has a non-empty value for every placeholder of the body
AllProvided(t, args) ==
    \A n \in PlaceholderNames(t) : HasOwn(args, n) /\ OwnValue(args, n) # <<>>

\* C3: once save(name, body) has returned success, a following list includes a
\* template of that name and body, and a following render-by-name for that
\* name with a non-empty value for every placeholder returns the body with
\* every placeholder replaced by its value (no store operation having failed).
C3_SavedThenListedAndRendered ==
    (failures = 0 /\ returned /\ lastMut.kind = "save") =>
        /\ result.kind = "list" =>
              \E k \in DOMAIN result.payload :
                  /\ result.payload[k].name = lastMut.name
                  /\ result.payload[k].template = lastMut.template
        /\ (/\ op.kind = "get"
            /\ op.name = lastMut.name
            /\ AllProvided(lastMut.template, op.inputs)
            /\ result.kind # "failed") =>
              result = Result("text", FALSE, Substituted(lastMut.template, op.inputs))

\* C4: when delete of an existing id returns success, no input row of that id
\* remains and the template's name is not registered in the Catalog; a
\* following render-by-name for that name returns not-found (no store
\* operation having failed).
C4_DeleteCascades ==
    /\ (failures = 0 /\ returned /\ result.kind = "deleted") =>
          /\ InputsWhere(op.id) = <<>>
          /\ local[1].name \notin Registered
    /\ (/\ failures = 0
        /\ returned
        /\ op.kind = "get"
        /\ lastMut.kind = "delete"
        /\ op.name = lastMut.name
        /\ result.kind # "failed") =>
          result = NotFound(op.name)

\* C5: when an update that changes the name of a template returns success,
\* the old name is not registered in the Catalog and the new name is (no
\* store operation having failed).
C5_RenameUnregistersOldName ==
    (/\ failures = 0
     /\ returned
     /\ result.kind = "updated"
     /\ local[1].name # local[2].name) =>
        /\ local[1].name \notin Registered
        /\ local[2].name \in Registered

\* C6: once an update that changes the body has returned success, the Catalog
\* entry under the template's name has the schema of the recomputed inputs and
\* renders the new body, for as long as the request's Catalog lives (no store
\* operation having failed).
C6_UpdateReplacesRegistration ==
    (/\ failures = 0
     /\ pc = "done"
     /\ result.kind = "updated"
     /\ op.template # UndefinedBody) =>
        LET e == prompts[local[2].name] IN
        /\ e.registered
        /\ e.template = op.template
        /\ e.argumentSchema =
              {[name |-> n, required |-> TRUE] : n \in Range(extractInputs(op.template))}

\* the required inputs for which args has no entry or an empty entry, in input order
ExpectedMissing(rows, args) ==
    InputNamesOf(SelectSeq(rows, LAMBDA r :
        r.required /\ (~HasOwn(args, r.name) \/ OwnValue(args, r.name) = <<>>)))

\* C9: for render-by-name of an existing template, the reported missing names
\* are exactly the required inputs with no entry or an empty entry in the
\* supplied values, in input order.
C9_MissingExactly ==
    (returned /\ op.kind = "get" /\ result.kind \in {"text", "missing"}) =>
        LET expected == ExpectedMissing(InputsWhere(local[1].id), op.inputs) IN
        IF result.kind = "missing" THEN result.payload[1] = expected
        ELSE expected = <<>>

\* C10: when a required input is missing, render-by-name returns the diagnostic
\* (missing names, raw body, all input names) without error flag and never the
\* substituted text; the rendered text is returned only when none is missing.
C10_DiagnosticWhenMissing ==
    (returned /\ op.kind = "get" /\ result.kind \in {"text", "missing"}) =>
        LET rows == InputsWhere(local[1].id)
            expected == ExpectedMissing(rows, op.inputs)
        IN IF Len(expected) > 0
           THEN result = Result("missing", FALSE,
                                <<expected, local[1].template, InputNamesOf(rows)>>)
           ELSE result.kind = "text"

-----------------------------------------------------------------------------
(* Claims about the render loop, under SpecRender and Spec.                *)

\* args has an entry for every placeholder name of the body
Covers(t, args) == \A p \in PlaceholderNames(t) : HasOwn(args, p)

\* the text holds "{p}" somewhere
HoldsPlaceholder(text, p) == \E i \in 1..Len(text) : OccursAt(text, Pattern(p), i)

\* no value of args holds a brace
BraceFreeValues(args) ==
    \A k \in DOMAIN args : Range(args[k].value) \cap {"{", "}"} = {}

\* C11: for every body and every entry list that has an entry for each
\* placeholder name of the body, the rendered text holds no "{p}" for any
\* placeholder name p of the body; stated here for the values that hold no
\* brace themselves, so that a "{p}" in the result can only be one that the
\* render loop left or wrote.
C11_NoPlaceholderRemains ==
    (exText.done /\ Covers(exBody, exArgs) /\ BraceFreeValues(exArgs)) =>
        \A p \in PlaceholderNames(exBody) : ~HoldsPlaceholder(exText.text, p)

\* no placeholder name of the body holds an opening brace
PlainNames(t) == \A n \in PlaceholderNames(t) : "{" \notin Range(n)

\* no value of args holds the character "$"
PlainValues(args) == \A k \in DOMAIN args : "$" \notin Range(args[k].value)

ReverseSeq(q) == [k \in DOMAIN q |-> q[Len(q) + 1 - k]]

\* C12: substitution is not re-entrant: for a body whose placeholder names are
\* plain and values without "$", the rendered text is the body with each
\* original placeholder replaced by its own value in one pass, and it is the
\* same when the keys are processed in the opposite order.
C12_NotReentrant ==
    (exText.done /\ PlainNames(exBody) /\ PlainValues(exArgs)) =>
        /\ exText.text = Substituted(exBody, exArgs)
        /\ exText.text = renderTemplate(exBody, ReverseSeq(exArgs))

\* C13: when render-by-name finds no required input missing, the text it
\* returns is the body with every placeholder that has a supplied value
\* replaced by that value and every other placeholder left literally in
\* place; a supplied key that is no placeholder of the body changes nothing.
C13_RenderIsSubstitution ==
    (returned /\ op.kind = "get" /\ result.kind = "text") =>
        result.payload = Substituted(local[1].template, op.inputs)

-----------------------------------------------------------------------------
(* Claims about the results of the tool handlers.                          *)

\* the handler is at its first select and nothing is persisted under the id
\* (update, delete) or the name (render-by-name) of the call
LooksUpNothing ==
    \/ pc \in {"update_select", "delete_select"} /\ TemplatesWhereId(op.id) = <<>>
    \/ pc = "get_select" /\ TemplatesWhereName(op.name) = <<>>

\* C14: the step of update, delete or render-by-name that looks up an id or
\* name that is not persisted ends the operation with a not-found result that
\* carries the error flag and that id or name, and leaves the templates, the
\* inputs and the Catalog as they were.
C14_NotFoundChangesNothing ==
    [][(LooksUpNothing /\ pc' # pc) =>
          /\ pc' = "done"
          /\ result'.kind = "notfound"
          /\ result'.isError
          /\ result'.payload = <<IF op.kind = "get" THEN op.name ELSE op.id>>
          /\ templates' = templates
          /\ inputs' = inputs
          /\ prompts' = prompts]_vars

\* C14 witness: a delete of an id that is not persisted has returned not-found
\* on a store that holds a template whose name is registered
C14_Witness ==
    /\ returned
    /\ op.kind = "delete"
    /\ result.kind = "notfound"
    /\ result.payload = <<op.id>>
    /\ templates # <<>>
    /\ Registered # {}

-----------------------------------------------------------------------------
(* Claims about the order of bootstrap and handler, timestamps and names.  *)

\* C16: no step of a tool handler is taken while the bootstrap of the
\* request's Catalog is still loading or registering: whenever the handler
\* moves, loadAndRegisterPrompts has run to its end.
C16_BootstrapBeforeHandler ==
    [][(pc \notin {"idle", "done"} /\ pc' # pc) => bpc = "done"]_vars

\* C19: when an update returns success, the updatedAt of the persisted row is
\* the time of the update and later than it was before, and the row's id and
\* createdAt are those it had before.
C19_UpdatedAtRefreshed ==
    (returned /\ result.kind = "updated") =>
        LET row == TemplatesWhereId(op.id)[1] IN
        /\ row.updatedAt = clock
        /\ row.updatedAt > local[1].updatedAt
        /\ row.id = local[1].id
        /\ row.createdAt = local[1].createdAt

\* C20: no two persisted templates have the same name.
C20_NamesUnique ==
    \A i, j \in DOMAIN templates : i # j => templates[i].name # templates[j].name

-----------------------------------------------------------------------------
(* Claims about failing store operations, under SpecFaulty.                *)

\* the bootstrap ended on a failing select inside its loop, at template bIdx
BootFailedInLoop == bpc = "done" /\ bIdx <= Len(bTemplates)

\* C15: when the bootstrap fails for one of the templates it loaded, every
\* other template it loaded is registered in the Catalog, whether it comes
\* before or after the failing one (seen in requests whose own operation
\* does not touch the Catalog: list and render-by-name).
C15_BootstrapIsolation ==
    (BootFailedInLoop /\ op.kind \in {"list", "get"}) =>
        \A k \in DOMAIN bTemplates :
            k # bIdx => bTemplates[k].name \in Registered

\* C17: when a save or an update has returned the failure result, every
\* persisted template's input rows are exactly the placeholder names of its
\* persisted body.
C17_ConsistentAfterFailure ==
    (pc = "done" /\ result.kind = "failed" /\ op.kind \in {"save", "update"}) =>
        \A t \in TemplateRows : InputsMatchBody(t)

\* C18: a store failure in any of the five operations ends it with a failure
\* result that has the error flag and the message of the error; the failing
\* step writes nothing and registers nothing, and from then until the next
\* request the store is not written again and the Catalog changes only by a
\* step of the bootstrap.
C18_FailureIsFinal ==
    /\ [](result.kind = "failed" =>
              /\ pc = "done"
              /\ result.isError
              /\ result.payload \in {<<op.kind, e.message>> : e \in StoreErrors})
    /\ [][(result'.kind = "failed" /\ clock' = clock) =>
              /\ templates' = templates
              /\ inputs' = inputs
              /\ nextId' = nextId
              /\ (prompts' # prompts => (result.kind = "failed" /\ bIdx' # bIdx))]_vars

\* C18 witness: an update has failed after its row was written and its old
\* input rows were deleted, and returned the failure result
C18_Witness ==
    /\ returned
    /\ op.kind = "update"
    /\ result.kind = "failed"
    /\ result.isError
    /\ Len(local) = 2
    /\ local[2].template # local[1].template
    /\ InputsWhere(op.id) = <<>>

-----------------------------------------------------------------------------
(* Claims about an update through PUT /api/templates/:id running next to   *)
(* the tool calls, under SpecConcurrent.                                   *)

\* no handler is in progress
Quiescent == pc \in {"idle", "done"} /\ rpc \in {"idle", "done"}

\* the PUT was received while a tool handler was running, or a POST /mcp
\* request was received before the PUT was answered
Overlapped == rhist.startBusy \/ rhist.endClock # rhist.startClock

\* C23: two updates of the body of one template that run concurrently can
\* leave it with input rows that are not the placeholder names of its
\* persisted body (C23_Witness reaches such a state); and only so: when no
\* handler is in progress, a template whose input rows do not match its body
\* is the one a body-changing PUT was applied to while a POST /mcp request
\* ran next to it.
C23_OnlyARaceBreaksInputs ==
    Quiescent =>
        \A t \in TemplateRows :
            ~InputsMatchBody(t) =>
                /\ rpc = "done"
                /\ rop.id = t.id
                /\ rop.template # UndefinedBody
                /\ Overlapped

\* C23 witness: the tool update and the PUT of one template, with different
\* bodies, have both returned success and the template holds the input rows
\* of both bodies
C23_Witness ==
    /\ Quiescent
    /\ op.kind = "update"
    /\ result.kind = "updated"
    /\ rresult.status = 200
    /\ op.id = rop.id
    /\ op.template # UndefinedBody
    /\ rop.template # UndefinedBody
    /\ op.template # rop.template
    /\ Len(InputsWhere(op.id)) =
          Len(extractInputs(op.template)) + Len(extractInputs(rop.template))

-----------------------------------------------------------------------------
(* Claims about what update_prompt_template writes and in which order,     *)
(* under Spec.                                                             *)

\* a step of the handler of an update
UpdateStep == op.kind = "update" /\ pc \notin {"idle", "done"} /\ pc' # pc

\* row `after` is row `before` with the supplied fields of call o replaced
\* and every other field kept
FrameOfUpdate(before, after, o) ==
    /\ after.id = before.id
    /\ after.createdAt = before.createdAt
    /\ after.name = (IF o.name = Undefined THEN before.name ELSE o.name)
    /\ after.description =
          (IF o.description = Undefined THEN before.description ELSE o.description)
    /\ after.template = (IF o.template = UndefinedBody THEN before.template ELSE o.template)

OtherInputs(rows, id) == SelectSeq(rows, LAMBDA r : r.templateId # id)

\* C21: no step of an update changes another template or the input rows of
\* another template, and the updated row changes only in the supplied fields;
\* no step of an update without a body changes the input rows at all; when
\* the update returns success the row is the row found at the start with the
\* supplied fields replaced and every other field as it was.
C21_UpdateFrame ==
    /\ [][UpdateStep =>
              /\ Len(templates') = Len(templates)
              /\ \A k \in DOMAIN templates :
                    IF templates[k].id = op.id
                    THEN \/ templates'[k] = templates[k]
                         \/ FrameOfUpdate(templates[k], templates'[k], op)
                    ELSE templates'[k] = templates[k]
              /\ OtherInputs(inputs', op.id) = OtherInputs(inputs, op.id)
              /\ op.template = UndefinedBody => inputs' = inputs]_vars
    /\ []((returned /\ result.kind = "updated") =>
              FrameOfUpdate(local[1], TemplatesWhereId(op.id)[1], op))

\* C21 witness: a template with input rows was renamed by an update without a
\* body, next to another persisted template
C21_Witness ==
    /\ returned
    /\ result.kind = "updated"
    /\ op.template = UndefinedBody
    /\ op.name # Undefined
    /\ local[1].name # op.name
    /\ TemplatesWhereId(op.id)[1].name = op.name
    /\ TemplatesWhereId(op.id)[1].template = local[1].template
    /\ InputsWhere(op.id) # <<>>
    /\ Len(templates) = 2

\* the row the handler of a save or an update has written
WrittenRow == IF op.kind = "save" THEN local[1] ELSE local[2]

\* the schema with one required argument per name
RequiredSchema(names) == {[name |-> n, required |-> TRUE] : n \in Range(names)}

\* a step of the handler of a save or an update
WriteStep == op.kind \in {"save", "update"} /\ pc \notin {"idle", "done"} /\ pc' # pc

\* C22: within one save or update the steps come in order: past the row write
\* the row is persisted; when the new inputs are inserted the old ones are
\* gone; when the template is registered the input rows are those of the
\* request's own rewrite; the handler registers at no other step, and the
\* schema it registers is built from the input rows as they are then.
C22_StrictOrder ==
    /\ [](pc \in {"save_inputs", "save_register"} =>
              local[1] \in TemplateRows)
    /\ [](pc = "save_register" =>
              InputNamesOf(InputsWhere(local[1].id)) = extractInputs(op.template))
    /\ [](pc \in {"update_delete_inputs", "update_insert_inputs", "update_register"} =>
              TemplatesWhereId(op.id) = <<local[2]>>)
    /\ [](pc = "update_insert_inputs" => InputsWhere(op.id) = <<>>)
    /\ []((pc = "update_register" /\ op.template # UndefinedBody) =>
              InputNamesOf(InputsWhere(op.id)) = extractInputs(op.template))
    /\ [][(WriteStep /\ prompts' # prompts) =>
              /\ pc \in {"save_register", "update_register"}
              /\ pc' = "done"
              /\ prompts' = [prompts EXCEPT ![WrittenRow.name] =
                    [registered |-> TRUE,
                     argumentSchema |->
                         RequiredSchema(InputNamesOf(InputsWhere(WrittenRow.id))),
                     template |-> WrittenRow.template,
                     description |-> WrittenRow.description]]]_vars

\* C22 witness: an update from body "{a}" to body "{b}{a}" has returned and
\* the entry it registered has the arguments b and a
C22_Witness ==
    /\ returned
    /\ result.kind = "updated"
    /\ local[1].template = bodyA
    /\ op.template = bodyBA
    /\ prompts[local[2].name].registered
    /\ prompts[local[2].name].argumentSchema = RequiredSchema(<< <<"b">>, <<"a">> >>)

-----------------------------------------------------------------------------
(* Claim about a failing delete, under SpecFaulty.                         *)

\* the bootstrap of the request has run to its end and has registered the
\* template the call names
BootRegisteredTarget ==
    /\ bpc = "done"
    /\ bIdx > Len(bTemplates)
    /\ \E k \in DOMAIN bTemplates : bTemplates[k].id = op.id

\* C24: when delete of an existing id has returned the failure result, in a
\* request whose bootstrap had registered the template, the template is
\* still persisted and its name is still registered in the Catalog.
C24_FailedDeleteKeepsRegistration ==
    (/\ returned
     /\ op.kind = "delete"
     /\ result.kind = "failed"
     /\ Len(local) = 1
     /\ BootRegisteredTarget) =>
        /\ TemplatesWhereId(op.id) # <<>>
        /\ TemplatesWhereId(op.id)[1].name \in Registered

====
